---- MODULE Spec2Model ----
(***************************************************************************)
(* Feature aggregation layer of rasa NLU: the Features value and its       *)
(* combination rules (featurizers/featurizer.py), the per-message feature  *)
(* store and its retrieval queries (training_data/message.py) and the      *)
(* spaCy dense featurizer with its pooling of token vectors                *)
(* (featurizers/dense_featurizer/spacy_featurizer.py).                     *)
(*                                                                         *)
(* Floating point numbers are modelled as exact rationals <<n, d>> in      *)
(* lowest terms with d > 0.  A numpy array or scipy sparse matrix is a     *)
(* record [kind, shape, rows]; Python's None and strings are records too,  *)
(* so that every Python value compares with every other.                   *)
(***************************************************************************)
EXTENDS Integers, Sequences, FiniteSets, TLC

VARIABLES
    text,               \* Message.text
    data,               \* Message.data, without the spaCy documents
    docs,               \* Message.data[SPACY_DOCS[attribute]], per attribute
    output_properties,  \* Message.output_properties
    features,           \* Message.features
    featurizer,         \* the SpacyFeaturizer instance, or None
    arg,                \* inputs of the pooling computation under study
    ret                 \* the last call: its name, arguments and outcome

vars == <<text, data, docs, output_properties, features, featurizer, arg, ret>>

-----------------------------------------------------------------------------
(* Bounds of the model *)

MaxTokens == 2          \* tokens per spaCy document
MaxFeatures == 2        \* records held by one message
MaxRows == 2            \* rows of a record added directly to a message

Widths == {1, 2}        \* vector widths of the spaCy vocabularies
TokenValues == {-1, 0, 1}
TokenTexts == {"a", " ", ""}

-----------------------------------------------------------------------------
(* Constants of rasa.nlu.constants and rasa.utils.tensorflow.constants *)

None == [kind |-> "NoneType"]
Str(s) == [kind |-> "str", s |-> s]
TEXT == "text"
INTENT == "intent"
RESPONSE == "response"
RESPONSE_KEY_ATTRIBUTE == "response_key"
RESPONSE_IDENTIFIER_DELIMITER == "/"
FEATURE_TYPE_SEQUENCE == "sequence"
FEATURE_TYPE_SENTENCE == "sentence"
VALID_FEATURE_TYPES == {FEATURE_TYPE_SEQUENCE, FEATURE_TYPE_SENTENCE}
DENSE_FEATURIZABLE_ATTRIBUTES == <<TEXT, RESPONSE>>
MEAN_POOLING == "mean"
MAX_POOLING == "max"
POOLING == "pooling"
ALIAS == "alias"

Attributes == {TEXT, RESPONSE}
Origins == {"a", "b"}

(* The exceptions the code raises, by the text of their message *)
NoError == "no error"
InvalidFeatureType == "ValueError: Invalid feature type"
SparseDenseMismatch == "ValueError: Cannot concatenate sparse and dense features"
SequenceDimensionMismatch == "ValueError: sequence dimension does not match"
InvalidPoolingOperation == "ValueError: Invalid pooling operation specified"
NoCombineFeatures == "AttributeError: type object 'Features' has no attribute 'combine_features'"

-----------------------------------------------------------------------------
(* Exact arithmetic standing for numpy's floating point *)

Abs(x) == IF x < 0 THEN -x ELSE x

RECURSIVE GCD(_, _)
GCD(a, b) == IF b = 0 THEN a ELSE GCD(b, a % b)

Rat(n, d) == LET g == GCD(Abs(n), d) IN <<n \div g, d \div g>>

Zero == <<0, 1>>
RatAdd(p, q) == Rat(p[1] * q[2] + q[1] * p[2], p[2] * q[2])
RatDivInt(p, k) == Rat(p[1], p[2] * k)
RatLeq(p, q) == p[1] * q[2] <= q[1] * p[2]

-----------------------------------------------------------------------------
(* numpy arrays and scipy sparse matrices *)

NDARRAY == "numpy.ndarray"
SPMATRIX == "scipy.sparse.spmatrix"

\* np.array(list of rows): an empty list gives the 1-D array of shape (0,)
np_array(rowList) ==
    IF rowList = <<>>
    THEN [kind |-> NDARRAY, shape |-> <<0>>, rows |-> <<>>]
    ELSE [kind |-> NDARRAY, shape |-> <<Len(rowList), Len(rowList[1])>>, rows |-> rowList]

\* np.zeros([r, c])
np_zeros(r, c) ==
    [kind |-> NDARRAY, shape |-> <<r, c>>, rows |-> [i \in 1..r |-> [j \in 1..c |-> Zero]]]

\* a.size
size(a) == IF Len(a.shape) = 1 THEN a.shape[1] ELSE a.shape[1] * a.shape[2]

\* a.shape[-1]
last_dim(a) == a.shape[Len(a.shape)]

\* len(a) and a.shape[0]
len(a) == a.shape[1]

\* f.any() of one row
any(row) == \E j \in 1..Len(row) : row[j][1] # 0

RECURSIVE ColumnSum(_, _)
ColumnSum(rowList, j) ==
    IF rowList = <<>> THEN Zero
    ELSE RatAdd(rowList[1][j], ColumnSum(Tail(rowList), j))

\* np.mean(a, axis=0, keepdims=True)
np_mean(a) ==
    [kind |-> NDARRAY, shape |-> <<1, last_dim(a)>>,
     rows |-> << [j \in 1..last_dim(a) |-> RatDivInt(ColumnSum(a.rows, j), len(a))] >>]

ColumnMax(rowList, j) ==
    LET column == {rowList[i][j] : i \in 1..Len(rowList)}
    IN  CHOOSE x \in column : \A y \in column : RatLeq(y, x)

\* np.max(a, axis=0, keepdims=True)
np_max(a) ==
    [kind |-> NDARRAY, shape |-> <<1, last_dim(a)>>,
     rows |-> << [j \in 1..last_dim(a) |-> ColumnMax(a.rows, j)] >>]

\* np.concatenate((a, b), axis=-1) and scipy.sparse.hstack([a, b]) of two
\* matrices with the same number of rows
hstack(a, b) ==
    [kind |-> a.kind, shape |-> <<a.shape[1], a.shape[2] + b.shape[2]>>,
     rows |-> [i \in 1..a.shape[1] |-> a.rows[i] \o b.rows[i]]]

-----------------------------------------------------------------------------
(* featurizer.py: DenseFeaturizer._calculate_cls_vector *)

Raise(error) == [raised |-> error, value |-> None]
Return(v) == [raised |-> NoError, value |-> v]

\* the selection of rows without its test
non_zero_features_all(feats) == np_array(feats.rows)

\* np.array([f for f in features if f.any()])
non_zero_features(feats) == np_array(SelectSeq(feats.rows, any))

_calculate_cls_vector(feats, pooling_operation) ==
    LET non_zero == non_zero_features(feats)
    IN  IF size(non_zero) = 0 THEN Return(np_zeros(1, last_dim(feats)))
        ELSE IF pooling_operation = MEAN_POOLING THEN Return(np_mean(non_zero))
        ELSE IF pooling_operation = MAX_POOLING THEN Return(np_max(non_zero))
        ELSE Raise(InvalidPoolingOperation)

-----------------------------------------------------------------------------
(* spacy_featurizer.py: the spaCy document and SpacyFeaturizer._features_for_doc *)

\* str.strip() on the token texts of the model
strip(s) == IF s = " " THEN "" ELSE s

\* truth value of a Python string
truthy(s) == s # ""

Tokens(w) == [text : TokenTexts, vector : [1..w -> {<<v, 1>> : v \in TokenValues}]]

\* a spaCy Doc: its tokens, and the width of its vocabulary's vectors
Docs == UNION {[width : {w}, tokens : [1..n -> Tokens(w)]] : w \in Widths, n \in 0..MaxTokens}

non_blank(t) == truthy(t.text) /\ truthy(strip(t.text))

TokenVectors(tokens) == [i \in 1..Len(tokens) |-> tokens[i].vector]

\* np.array([t.vector for t in doc if t.text and t.text.strip()])
_features_for_doc(doc) == np_array(TokenVectors(SelectSeq(doc.tokens, non_blank)))

-----------------------------------------------------------------------------
(* Pooling as a pure function: the inputs are drawn by PoolInit *)

Poolings == {MEAN_POOLING, MAX_POOLING, "sum"}

NoCall == [op |-> "none"]

PoolInit ==
    /\ text = "hello"
    /\ data = <<>>
    /\ docs = [a \in Attributes |-> None]
    /\ output_properties = {}
    /\ features = <<>>
    /\ featurizer = None
    /\ arg \in [doc : Docs, pooling_operation : Poolings]
    /\ ret = NoCall

features_for_doc ==
    /\ ret.op = "none"
    /\ ret' = [op |-> "_features_for_doc", value |-> _features_for_doc(arg.doc)]
    /\ UNCHANGED <<text, data, docs, output_properties, features, featurizer, arg>>

calculate_cls_vector ==
    /\ ret.op = "_features_for_doc"
    /\ LET out == _calculate_cls_vector(ret.value, arg.pooling_operation)
       IN  ret' = [op |-> "_calculate_cls_vector", features |-> ret.value,
                   raised |-> out.raised, value |-> out.value]
    /\ UNCHANGED <<text, data, docs, output_properties, features, featurizer, arg>>

PoolNext == features_for_doc \/ calculate_cls_vector

SpecPool == PoolInit /\ [][PoolNext]_vars

-----------------------------------------------------------------------------
(* Properties of pooling, checked under SpecPool *)

Pooled == ret.op = "_calculate_cls_vector"

\* the indices of the rows of a matrix that are not all-zero
NonZeroRowIndices(a) ==
    {i \in 1..Len(a.rows) : \E j \in 1..Len(a.rows[i]) : a.rows[i][j] # Zero}

ZeroRowIndices(a) == (1..Len(a.rows)) \ NonZeroRowIndices(a)

\* the sum of the numerators of column j over the rows I (token vectors are integral)
RECURSIVE NumeratorSum(_, _, _)
NumeratorSum(a, I, j) ==
    IF I = {} THEN 0
    ELSE LET i == CHOOSE x \in I : TRUE
         IN  a.rows[i][j][1] + NumeratorSum(a, I \ {i}, j)

\* matrix a with an all-zero row put before position k
InsertZeroRow(a, k) ==
    np_array(SubSeq(a.rows, 1, k - 1) \o << [j \in 1..a.shape[2] |-> Zero] >>
             \o SubSeq(a.rows, k, Len(a.rows)))

\* matrix a without its row i
RemoveRow(a, i) == np_array(SubSeq(a.rows, 1, i - 1) \o SubSeq(a.rows, i + 1, Len(a.rows)))

IsMeanOfNonZeroRows(a, v) ==
    \A j \in 1..a.shape[2] :
        v[j][1] * Cardinality(NonZeroRowIndices(a)) = v[j][2] * NumeratorSum(a, NonZeroRowIndices(a), j)

IsMaxOfNonZeroRows(a, v) ==
    \A j \in 1..a.shape[2] :
        /\ \E i \in NonZeroRowIndices(a) : a.rows[i][j] = v[j]
        /\ \A i \in NonZeroRowIndices(a) : RatLeq(a.rows[i][j], v[j])

\* C4: for an input with at least one row that is not all-zero, MEAN (MAX)
\* pooling returns one row of the input's width holding the column-wise mean
\* (maximum) of exactly the rows that are not all-zero, and putting in or
\* taking out an all-zero row does not change the result.
C4_PoolOverNonZeroRows ==
    (Pooled /\ arg.pooling_operation \in {MEAN_POOLING, MAX_POOLING}
            /\ NonZeroRowIndices(ret.features) # {})
    => /\ ret.raised = NoError
       /\ ret.value.shape = <<1, ret.features.shape[2]>>
       /\ Len(ret.value.rows) = 1
       /\ Len(ret.value.rows[1]) = ret.features.shape[2]
       /\ arg.pooling_operation = MEAN_POOLING
            => IsMeanOfNonZeroRows(ret.features, ret.value.rows[1])
       /\ arg.pooling_operation = MAX_POOLING
            => IsMaxOfNonZeroRows(ret.features, ret.value.rows[1])
       /\ \A k \in 1..(Len(ret.features.rows) + 1) :
            _calculate_cls_vector(InsertZeroRow(ret.features, k), arg.pooling_operation).value
                = ret.value
       /\ \A i \in ZeroRowIndices(ret.features) :
            _calculate_cls_vector(RemoveRow(ret.features, i), arg.pooling_operation).value
                = ret.value

\* a zero row next to a non-zero row with a negative entry, pooled by MAX and by MEAN
C4_Witness ==
    /\ Pooled
    /\ arg.pooling_operation \in {MEAN_POOLING, MAX_POOLING}
    /\ ZeroRowIndices(ret.features) # {}
    /\ NonZeroRowIndices(ret.features) # {}
    /\ ret.raised = NoError
    /\ \E j \in 1..ret.features.shape[2] : ret.value.rows[1][j][1] < 0

\* C5: pooling an input without non-zero rows raises nothing and returns one
\* all-zero row, as wide as the input when the input has rows and as wide as
\* the declared vector width of the document when the input has no rows.
C5_ZeroRowOfFeatureWidth ==
    (Pooled /\ NonZeroRowIndices(ret.features) = {})
    => /\ ret.raised = NoError
       /\ ret.value = np_zeros(1, IF Len(ret.features.rows) > 0
                                  THEN ret.features.shape[2]
                                  ELSE arg.doc.width)

\* C6: whatever the input matrix, a pooling policy other than MEAN and MAX fails
\* with the invalid-pooling error and returns no vector.
C6_InvalidPolicyAlwaysFails ==
    (Pooled /\ arg.pooling_operation \notin {MEAN_POOLING, MAX_POOLING})
    => /\ ret.raised = InvalidPoolingOperation
       /\ ret.value = None

-----------------------------------------------------------------------------
(* featurizer.py: class Features *)

validate_type(type) == IF type \in VALID_FEATURE_TYPES THEN NoError ELSE InvalidFeatureType

\* Features.__init__
Features(tensor, type, message_attribute, origin) ==
    IF validate_type(type) # NoError THEN Raise(validate_type(type))
    ELSE Return([features |-> tensor, type |-> type,
                 origin |-> origin, message_attribute |-> message_attribute])

is_sparse(f) == f.features.kind = SPMATRIX
is_dense(f) == ~is_sparse(f)

_combine_dense_features(feats, additional_features) ==
    IF len(feats) # len(additional_features) THEN Raise(SequenceDimensionMismatch)
    ELSE Return(hstack(feats, additional_features))

_combine_sparse_features(feats, additional_features) ==
    IF feats.shape[1] # additional_features.shape[1] THEN Raise(SequenceDimensionMismatch)
    ELSE Return(hstack(feats, additional_features))

combine_with_features(self, additional_features) ==
    IF additional_features = None THEN Return(self.features)
    ELSE IF is_dense(self) /\ additional_features.kind = NDARRAY
         THEN _combine_dense_features(self.features, additional_features)
    ELSE IF is_sparse(self) /\ additional_features.kind = SPMATRIX
         THEN _combine_sparse_features(self.features, additional_features)
    ELSE Raise(SparseDenseMismatch)

\* Features.combine_features(combined, f), as message.py calls it: class
\* Features defines no attribute of that name, so the lookup raises
combine_features(combined, f) == Raise(NoCombineFeatures)

-----------------------------------------------------------------------------
(* message.py: Message.get_sparse_features and Message.get_dense_features *)

\* [f for f in seq if Test(f)]
attribute_features(feats, attribute, sparse) ==
    LET wanted(f) == f.message_attribute = attribute /\ (is_sparse(f) <=> sparse)
    IN  SelectSeq(feats, wanted)

sequence_features(feats, sequence_featurizers, sentence_featurizers) ==
    LET kept(f) == /\ f.type = FEATURE_TYPE_SEQUENCE
                   /\ (f.origin \in sequence_featurizers \/ sentence_featurizers = {})
    IN  SelectSeq(feats, kept)

sentence_features(feats, sentence_featurizers) ==
    LET kept(f) == /\ f.type = FEATURE_TYPE_SENTENCE
                   /\ (f.origin \in sentence_featurizers \/ sentence_featurizers = {})
    IN  SelectSeq(feats, kept)

\* for f in group: combined = Features.combine_features(combined, f)
RECURSIVE combine_all(_, _)
combine_all(group, combined) ==
    IF group = <<>> THEN Return(combined)
    ELSE LET step == combine_features(combined, group[1])
         IN  IF step.raised # NoError THEN step
             ELSE combine_all(Tail(group), step.value)

Outcome(raised, value, seqGroup, sentGroup) ==
    [raised |-> raised, value |-> value,
     sequence_features |-> seqGroup, sentence_features |-> sentGroup]

NonePair == [sequence |-> None, sentence |-> None]

\* the body the two retrieval methods share, after the selection by sparsity
get_features(feats, attribute, sequence_featurizers, sentence_featurizers, sparse) ==
    LET selected == attribute_features(feats, attribute, sparse)
        seqGroup == sequence_features(selected, sequence_featurizers, sentence_featurizers)
        sentGroup == sentence_features(selected, sentence_featurizers)
        combined_sequence_features == combine_all(seqGroup, None)
        combined_sentence_features == combine_all(sentGroup, None)
    IN  IF selected = <<>> THEN Outcome(NoError, NonePair, <<>>, <<>>)
        ELSE IF seqGroup = <<>> /\ sentGroup = <<>>
             THEN Outcome(NoError, NonePair, seqGroup, sentGroup)
        ELSE IF combined_sequence_features.raised # NoError
             THEN Outcome(combined_sequence_features.raised, None, seqGroup, sentGroup)
        ELSE IF combined_sentence_features.raised # NoError
             THEN Outcome(combined_sentence_features.raised, None, seqGroup, sentGroup)
        ELSE Outcome(NoError,
                     [sequence |-> combined_sequence_features.value,
                      sentence |-> combined_sentence_features.value],
                     seqGroup, sentGroup)

get_sparse_features(feats, attribute, sequence_featurizers, sentence_featurizers) ==
    get_features(feats, attribute, sequence_featurizers, sentence_featurizers, TRUE)

get_dense_features(feats, attribute, sequence_featurizers, sentence_featurizers) ==
    get_features(feats, attribute, sequence_featurizers, sentence_featurizers, FALSE)

-----------------------------------------------------------------------------
(* The feature store of one message: add_features and the two retrievals *)

\* an r x c matrix of the given kind, every entry the number v
Matrix(kind, r, c, v) ==
    [kind |-> kind, shape |-> <<r, c>>, rows |-> [i \in 1..r |-> [j \in 1..c |-> <<v, 1>>]]]

\* the records a featurizer may add as the v-th record of a message: v marks
\* the record's entries and is its width, so that the records of a message
\* differ from one another
Records(v) ==
    [features : {Matrix(k, r, v, v) : k \in {NDARRAY, SPMATRIX}, r \in 1..MaxRows},
     type : VALID_FEATURE_TYPES,
     message_attribute : Attributes,
     origin : Origins]

\* the state after Message(text)
MessageInit ==
    /\ text = "hello"
    /\ data = <<>>
    /\ docs = [a \in Attributes |-> None]
    /\ output_properties = {}
    /\ features = <<>>
    /\ featurizer = None
    /\ arg = None
    /\ ret = NoCall

\* add_features putting the record first
add_features_in_front(f) ==
    /\ Len(features) < MaxFeatures
    /\ features' = <<f>> \o features
    /\ ret' = [op |-> "add_features"]
    /\ UNCHANGED <<text, data, docs, output_properties, featurizer, arg>>

add_features(f) ==
    /\ Len(features) < MaxFeatures
    /\ features' = Append(features, f)
    /\ ret' = [op |-> "add_features"]
    /\ UNCHANGED <<text, data, docs, output_properties, featurizer, arg>>

Retrieval(op, attribute, seqF, sentF, out) ==
    [op |-> op, attribute |-> attribute,
     sequence_featurizers |-> seqF, sentence_featurizers |-> sentF,
     raised |-> out.raised, value |-> out.value,
     sequence_features |-> out.sequence_features,
     sentence_features |-> out.sentence_features]

sparse_features(attribute, seqF, sentF) ==
    /\ ret' = Retrieval("get_sparse_features", attribute, seqF, sentF,
                        get_sparse_features(features, attribute, seqF, sentF))
    /\ UNCHANGED <<text, data, docs, output_properties, features, featurizer, arg>>

dense_features(attribute, seqF, sentF) ==
    /\ ret' = Retrieval("get_dense_features", attribute, seqF, sentF,
                        get_dense_features(features, attribute, seqF, sentF))
    /\ UNCHANGED <<text, data, docs, output_properties, features, featurizer, arg>>

\* f.combine_with_features(additional) called on a stored record, with None
\* or with the matrix of a stored record
combine(i, additional) ==
    /\ LET out == combine_with_features(features[i], additional)
       IN  ret' = [op |-> "combine_with_features", self |-> features[i],
                   additional_features |-> additional,
                   raised |-> out.raised, value |-> out.value]
    /\ UNCHANGED <<text, data, docs, output_properties, features, featurizer, arg>>

StoreNext ==
    \/ \E f \in Records(Len(features) + 1) : add_features(f)
    \/ \E a \in Attributes, seqF \in SUBSET Origins, sentF \in SUBSET Origins :
          sparse_features(a, seqF, sentF)
    \/ \E a \in Attributes, seqF \in SUBSET Origins, sentF \in SUBSET Origins :
          dense_features(a, seqF, sentF)
    \/ \E i \in 1..Len(features) :
          \E additional \in {None} \cup {features[j].features : j \in 1..Len(features)} :
              combine(i, additional)

SpecStore == MessageInit /\ [][StoreNext]_vars

-----------------------------------------------------------------------------
(* Properties of retrieval, checked under SpecStore *)

Retrieved == ret.op \in {"get_sparse_features", "get_dense_features"}

\* record f matches the attribute and the sparsity the last retrieval asked for
Requested(f) ==
    /\ f.message_attribute = ret.attribute
    /\ is_sparse(f) <=> ret.op = "get_sparse_features"

Holds(group, f) == \E i \in 1..Len(group) : group[i] = f

Admits(allowList, f) == f.origin \in allowList \/ allowList = {}

SameRowCount(group) ==
    \A i, j \in 1..Len(group) : group[i].features.shape[1] = group[j].features.shape[1]

\* r1 | r2 | ... | rn for a group of records with one row count
RECURSIVE Concatenation(_)
Concatenation(group) ==
    IF Len(group) = 1 THEN group[1].features
    ELSE LET init == Concatenation(SubSeq(group, 1, Len(group) - 1))
             final == group[Len(group)].features
         IN  [kind |-> init.kind,
              shape |-> <<init.shape[1], init.shape[2] + final.shape[2]>>,
              rows |-> [i \in 1..init.shape[1] |-> init.rows[i] \o final.rows[i]]]

C2_FoldInInsertionOrder ==
    (Retrieved /\ SameRowCount(ret.sequence_features) /\ SameRowCount(ret.sentence_features))
    => /\ ret.sequence_features # <<>> =>
            /\ ret.raised = NoError
            /\ ret.value.sequence = Concatenation(ret.sequence_features)
       /\ ret.sentence_features # <<>> =>
            /\ ret.raised = NoError
            /\ ret.value.sentence = Concatenation(ret.sentence_features)

RECURSIVE ColumnCount(_)
ColumnCount(group) ==
    IF group = <<>> THEN 0 ELSE group[1].features.shape[2] + ColumnCount(Tail(group))

\* C3: a retrieval whose filtered SEQUENCE or SENTENCE group holds records
\* with different row counts fails with the sequence-dimension error and
\* returns no pair; a retrieval that returns has skipped no record: each
\* tensor of the pair is None for an empty group and otherwise as wide as
\* all the records of its group together.
C3_MismatchRaisesNoSilentSkip ==
    Retrieved =>
        /\ (~SameRowCount(ret.sequence_features) \/ ~SameRowCount(ret.sentence_features))
              => (ret.raised = SequenceDimensionMismatch /\ ret.value = None)
        /\ ret.raised = NoError =>
              /\ ret.value.sequence = None <=> ret.sequence_features = <<>>
              /\ ret.value.sentence = None <=> ret.sentence_features = <<>>
              /\ ret.sequence_features # <<>> =>
                    ret.value.sequence.shape[2] = ColumnCount(ret.sequence_features)
              /\ ret.sentence_features # <<>> =>
                    ret.value.sentence.shape[2] = ColumnCount(ret.sentence_features)

-----------------------------------------------------------------------------
(* message.py: set, get, as_dict, as_dict_nlu; Python dicts are functions *)

dict_set(d, k, v) == [x \in DOMAIN d \cup {k} |-> IF x = k THEN v ELSE d[x]]
dict_get(d, k, default) == IF k \in DOMAIN d THEN d[k] ELSE default
dict_pop(d, k) == [x \in DOMAIN d \ {k} |-> d[x]]

\* {key: value for key, value in d.items() if key in keys}
items_with_key_in(d, keys) == [x \in {k \in DOMAIN d : k \in keys} |-> d[x]]

\* {key: value for key, value in d.items() if value is not None}
items_not_none(d) == [x \in {k \in DOMAIN d : d[k] # None} |-> d[x]]

\* truth value of None and of a string
truth(v) == IF v = None THEN FALSE ELSE truthy(v.s)

\* Message.get on the fields of a message
get(msg_text, msg_data, prop, default) ==
    IF prop = TEXT THEN Str(msg_text) ELSE dict_get(msg_data, prop, default)

\* as_dict without the filter on None values
as_dict_with_none(msg_text, msg_data, msg_output_properties, only_output_properties) ==
    LET d == IF only_output_properties
             THEN items_with_key_in(msg_data, msg_output_properties) ELSE msg_data
    IN  dict_set(d, "text", Str(msg_text))

\* Message.as_dict on the fields of a message
as_dict(msg_text, msg_data, msg_output_properties, only_output_properties) ==
    LET d == IF only_output_properties
             THEN items_with_key_in(msg_data, msg_output_properties) ELSE msg_data
    IN  dict_set(items_not_none(d), "text", Str(msg_text))

get_combined_intent_response_key(msg_text, msg_data) ==
    LET intent == get(msg_text, msg_data, INTENT, None)
        response_key == get(msg_text, msg_data, RESPONSE_KEY_ATTRIBUTE, None)
        response_key_suffix ==
            IF truth(response_key) THEN RESPONSE_IDENTIFIER_DELIMITER \o response_key.s ELSE ""
    IN  Str((IF intent = None THEN "None" ELSE intent.s) \o response_key_suffix)

as_dict_nlu(msg_text, msg_data, msg_output_properties) ==
    LET d == as_dict(msg_text, msg_data, msg_output_properties, FALSE)
        e == IF truth(dict_get(d, INTENT, None))
             THEN dict_set(d, INTENT, get_combined_intent_response_key(msg_text, msg_data))
             ELSE d
    IN  dict_pop(dict_pop(e, RESPONSE_KEY_ATTRIBUTE), RESPONSE)

-----------------------------------------------------------------------------
(* One message under all its operations *)

Props == {TEXT, INTENT, RESPONSE_KEY_ATTRIBUTE}
Infos == {None, Str("greet")}

\* the records and the queries of this specification: one attribute, one origin
MessageRecords(v) ==
    {r \in Records(v) : /\ r.message_attribute = TEXT
                        /\ r.origin = "a"
                        /\ r.type = FEATURE_TYPE_SENTENCE
                        /\ r.features.shape[1] = 1}

set(prop, info, add_to_output) ==
    /\ data' = dict_set(data, prop, info)
    /\ output_properties' = IF add_to_output THEN output_properties \cup {prop}
                                             ELSE output_properties
    /\ ret' = [op |-> "set"]
    /\ UNCHANGED <<text, docs, features, featurizer, arg>>

get_prop(prop, default) ==
    /\ ret' = [op |-> "get", value |-> get(text, data, prop, default)]
    /\ UNCHANGED <<text, data, docs, output_properties, features, featurizer, arg>>

export(only_output_properties) ==
    /\ ret' = [op |-> "as_dict", only_output_properties |-> only_output_properties,
               value |-> as_dict(text, data, output_properties, only_output_properties)]
    /\ UNCHANGED <<text, data, docs, output_properties, features, featurizer, arg>>

export_nlu ==
    /\ ret' = [op |-> "as_dict_nlu", value |-> as_dict_nlu(text, data, output_properties)]
    /\ UNCHANGED <<text, data, docs, output_properties, features, featurizer, arg>>

Next ==
    \/ \E f \in MessageRecords(Len(features) + 1) : add_features(f)
    \/ \E prop \in Props, info \in Infos, add_to_output \in BOOLEAN :
          set(prop, info, add_to_output)
    \/ \E prop \in Props : get_prop(prop, None)
    \/ \E only_output_properties \in BOOLEAN : export(only_output_properties)
    \/ export_nlu
    \/ \E allowList \in {{}, {"a"}} : sparse_features(TEXT, allowList, allowList)
    \/ \E allowList \in {{}, {"a"}} : dense_features(TEXT, allowList, allowList)

Spec == MessageInit /\ [][Next]_vars

\* C9: the stored feature sequence is append-only: every step keeps the old
\* sequence as a prefix of the new one, add_features puts exactly one record
\* at its end, and no other operation (set, get, as_dict, as_dict_nlu, a
\* retrieval that returns or fails) changes it.
C9_FeaturesAppendOnly ==
    [][ /\ Len(features) <= Len(features')
        /\ SubSeq(features', 1, Len(features)) = features
        /\ ret'.op = "add_features" => Len(features') = Len(features) + 1
        /\ ret'.op # "add_features" => features' = features ]_vars

\* a message that got its second record, after a retrieval failed
C9_Witness ==
    /\ Len(features) = 2
    /\ ret.op \in {"get_sparse_features", "get_dense_features"}
    /\ ret.raised # NoError

Exported == ret.op = "as_dict"

\* the export holds the key text with the raw text; its other keys are
\* the data keys with a value other than None, and among them only the
\* declared output keys when the restriction is asked for; every other value
\* is the data value of its key, so no feature record is exported
ExportView ==
    Exported =>
        /\ "text" \in DOMAIN ret.value
        /\ ret.value["text"] = Str(text)
        /\ DOMAIN ret.value \ {"text"} =
              {k \in DOMAIN data \ {"text"} :
                  /\ data[k] # None
                  /\ ret.only_output_properties => k \in output_properties}
        /\ \A k \in DOMAIN ret.value \ {"text"} : ret.value[k] = data[k]
        /\ \A k \in DOMAIN ret.value : \A i \in 1..Len(features) : ret.value[k] # features[i]

\* producing the export changes neither the data mapping, nor the output
\* keys, nor the stored features
ExportChangesNothing ==
    ret'.op = "as_dict" =>
        /\ data' = data
        /\ output_properties' = output_properties
        /\ features' = features

\* C10: after any calls of set and add_features the export view holds no
\* feature record, always holds the key text with the raw text, and beside
\* it exactly the data keys whose value is not None, only the declared
\* output keys among them when the restriction is asked for; producing it
\* leaves the data mapping, the output keys and the stored features as
\* they were.
C10_Export == []ExportView /\ [][ExportChangesNothing]_vars

\* a restricted export of a message with a record, a None entry, an
\* undeclared entry, a declared entry and a data entry under the key text
C10_Witness ==
    /\ Exported
    /\ ret.only_output_properties
    /\ features # <<>>
    /\ \E k \in DOMAIN data : data[k] = None /\ k \in output_properties
    /\ \E k \in DOMAIN data : data[k] # None /\ k \notin output_properties
    /\ DOMAIN ret.value = {"text"}
    /\ "text" \in DOMAIN data

-----------------------------------------------------------------------------
(* spacy_featurizer.py: class SpacyFeaturizer *)

defaults == [pooling |-> MEAN_POOLING, alias |-> "spacy_featurizer"]

\* SpacyFeaturizer.__init__: the component configuration is the given one
\* over the defaults, and the pooling operation is read from it
SpacyFeaturizer(component_config) ==
    LET merged == [k \in DOMAIN defaults |->
                      IF k \in DOMAIN component_config THEN component_config[k] ELSE defaults[k]]
    IN  Return([component_config |-> merged, pooling_operation |-> merged[POOLING]])

\* get_doc: message.get(SPACY_DOCS[attribute])
get_doc(msg_docs, attribute) == msg_docs[attribute]

\* _set_spacy_features on the records of a message: the records afterwards,
\* and what was raised
_set_spacy_features(self, msg_features, msg_docs, attribute) ==
    LET message_attribute_doc == get_doc(msg_docs, attribute)
        feats == _features_for_doc(message_attribute_doc)
        cls_token_vec == _calculate_cls_vector(feats, self.pooling_operation)
        final_sequence_features ==
            Features(feats, FEATURE_TYPE_SEQUENCE, attribute, self.component_config[ALIAS])
        final_sentence_features ==
            Features(cls_token_vec.value, FEATURE_TYPE_SENTENCE, attribute,
                     self.component_config[ALIAS])
    IN  IF message_attribute_doc = None THEN [raised |-> NoError, features |-> msg_features]
        ELSE IF cls_token_vec.raised # NoError
             THEN [raised |-> cls_token_vec.raised, features |-> msg_features]
        ELSE [raised |-> NoError,
              features |-> Append(Append(msg_features, final_sequence_features.value),
                                  final_sentence_features.value)]

\* train on one example: for attribute in DENSE_FEATURIZABLE_ATTRIBUTES
RECURSIVE train_example(_, _, _, _)
train_example(self, msg_features, msg_docs, attributes) ==
    IF attributes = <<>> THEN [raised |-> NoError, features |-> msg_features]
    ELSE LET step == _set_spacy_features(self, msg_features, msg_docs, attributes[1])
         IN  IF step.raised # NoError THEN step
             ELSE train_example(self, step.features, msg_docs, Tail(attributes))

-----------------------------------------------------------------------------
(* One featurizer and one message with its spaCy documents *)

AdapterDocs == {d \in Docs : d.width = 1}
ResponseDocs == {d \in AdapterDocs : Len(d.tokens) <= 1}
Configs ==
    {<<>>} \cup [{POOLING} -> Poolings] \cup [{ALIAS} -> {"vec"}]
           \cup {[pooling |-> p, alias |-> "vec"] : p \in Poolings}

AdapterInit ==
    /\ text = "hello"
    /\ data = <<>>
    /\ docs \in {d \in [Attributes -> AdapterDocs \cup {None}] :
                    d[RESPONSE] \in ResponseDocs \cup {None}}
    /\ output_properties = {}
    /\ features = <<>>
    /\ featurizer = None
    /\ arg = None
    /\ ret = NoCall

construct(component_config) ==
    /\ featurizer = None
    /\ LET out == SpacyFeaturizer(component_config)
       IN  /\ featurizer' = out.value
           /\ ret' = [op |-> "__init__", raised |-> out.raised]
    /\ UNCHANGED <<text, data, docs, output_properties, features, arg>>

process ==
    /\ featurizer # None
    /\ Len(features) + 2 <= 2 * MaxFeatures
    /\ LET out == _set_spacy_features(featurizer, features, docs, TEXT)
       IN  /\ features' = out.features
           /\ ret' = [op |-> "process", raised |-> out.raised]
    /\ UNCHANGED <<text, data, docs, output_properties, featurizer, arg>>

train ==
    /\ featurizer # None
    /\ Len(features) + 2 * Len(DENSE_FEATURIZABLE_ATTRIBUTES) <= 2 * MaxFeatures
    /\ LET out == train_example(featurizer, features, docs, DENSE_FEATURIZABLE_ATTRIBUTES)
       IN  /\ features' = out.features
           /\ ret' = [op |-> "train", raised |-> out.raised]
    /\ UNCHANGED <<text, data, docs, output_properties, featurizer, arg>>

AdapterNext ==
    \/ \E component_config \in Configs : construct(component_config)
    \/ process
    \/ train

SpecAdapter == AdapterInit /\ [][AdapterNext]_vars

\* C7: no featurizer with a pooling policy other than MEAN and MAX exists,
\* construction being where such a configuration fails: the invalid-pooling
\* error is never raised by process or train.
C7_InvalidPolicyFailsAtConstruction ==
    /\ featurizer # None => featurizer.pooling_operation \in {MEAN_POOLING, MAX_POOLING}
    /\ ret.op \in {"process", "train"} => ret.raised # InvalidPoolingOperation

\* the two records one invocation adds for an attribute whose document is present
TwoRecords(attribute) ==
    LET feats == _features_for_doc(docs[attribute])
    IN  << [features |-> feats, type |-> FEATURE_TYPE_SEQUENCE,
            origin |-> featurizer.component_config[ALIAS], message_attribute |-> attribute],
           [features |-> _calculate_cls_vector(feats, featurizer.pooling_operation).value,
            type |-> FEATURE_TYPE_SENTENCE,
            origin |-> featurizer.component_config[ALIAS], message_attribute |-> attribute] >>

\* what one invocation adds for an attribute
Added(attribute) == IF docs[attribute] = None THEN <<>> ELSE TwoRecords(attribute)

\* C8: an invocation of the featurizer on a message and an attribute either
\* finds the attribute's document and appends exactly two records, the
\* SEQUENCE record of the token matrix and then the SENTENCE record of the
\* pooled vector, both with the featurizer's origin and the attribute, or
\* finds no document, appends nothing and raises nothing; the records stored
\* before, the text and the data mapping stay as they were.  process invokes
\* it for TEXT, train for TEXT and then for RESPONSE.
C8_TwoRecordsOrNone ==
    [][ /\ ret'.op = "process" =>
            /\ features' = features \o Added(TEXT)
            /\ docs[TEXT] = None => ret'.raised = NoError
        /\ ret'.op = "train" =>
            /\ features' = features \o Added(TEXT) \o Added(RESPONSE)
            /\ (docs[TEXT] = None /\ docs[RESPONSE] = None) => ret'.raised = NoError
        /\ ret'.op \in {"process", "train"} =>
            (text' = text /\ data' = data /\ docs' = docs) ]_vars

====
